---- MODULE Spec2Model ----
(***************************************************************************)
(* Furry-GIF: the Gif / Tag / TagAlias / GifTag / Source tables, the tag   *)
(* search query of Gif.search, alias resolution of Tag.readByTagName, the  *)
(* add/remove reconciliation of the tags, sources and aliases setters and  *)
(* the GifController handlers built on them.                               *)
(***************************************************************************)
EXTENDS Integers, Sequences, FiniteSets, TLC

\* ------------------------------------------------------------------------
\* Bounds and input domains
\* ------------------------------------------------------------------------

\* longest tag / source / alias list handed to a handler
MaxLen == 2
\* most tokens in the tag list of a search
MaxTokens == 2
\* largest LIMIT of a search
MaxLimit == 2
\* pages (0-indexed) asked of a search
Pages == {0, 1}

NULL == "NULL"

Keys == {"k1", "k2"}
UserIds == {"u1", "u2"}
Roles == {"user", "moderator", "administrator"}
Ratings == {"safe", "explicit"}
\* names handed to GifController.update as tag names
TagNames == {"a", "b"}
\* names handed to the aliases setter: "b" is a tag name as well
AliasNames == {"b", "c"}
\* query tokens: a tag name, a name that is a tag and an alias, a name that is
\* stored nowhere, and a negated token
PlainTokens == TagNames \cup {"x"}
NegatedTokens == {"-a"}
Tokens == PlainTokens \cup NegatedTokens

\* "-n" without its leading dash
StripDash(tok) == IF tok = "-a" THEN "a" ELSE tok

SeqsUpTo(S, n) == UNION {[1..m -> S] : m \in 0..n}
Range(s) == {s[i] : i \in 1..Len(s)}
IsDuplicateFree(s) == \A i, j \in 1..Len(s) : i # j => s[i] # s[j]
Min(x, y) == IF x < y THEN x ELSE y
Max(x, y) == IF x > y THEN x ELSE y

\* ------------------------------------------------------------------------
\* State: the tables of the database and the response of the last handler
\* ------------------------------------------------------------------------
VARIABLES
    Gif,        \* rows [fileUniqueId, rating, uploadedById], key fileUniqueId
    Tag,        \* rows [tag, category], key tag
    TagAlias,   \* rows [tag, alias], key alias, tag references Tag
    GifTag,     \* rows [fileUniqueId, tag], references Gif and Tag
    Source,     \* rows [source, fileUniqueId], references Gif
    resp,       \* what the handler called last returned (or threw)
    task,       \* per caller, the setter (tags, sources or aliases) it has running
    User        \* rows [id, role, disabled, sfwMode], key id

vars == <<Gif, Tag, TagAlias, GifTag, Source, resp, task, User>>
tables == <<Gif, Tag, TagAlias, GifTag, Source>>

NoResp == [op |-> "none"]

\* ------------------------------------------------------------------------
\* Point and set lookups
\* ------------------------------------------------------------------------

\* the only row of a result set that has one
Row(rows) == CHOOSE row \in rows : TRUE

\* Gif.readById: the result set, {} standing for the null it returns
readById(fileUniqueId) == {g \in Gif : g.fileUniqueId = fileUniqueId}

\* mutant: the Tag table is searched first, the aliases only for an unknown name
readByTagNameInTagFirst(tagT, aliasT, tagName) ==
    LET aliasRows == {t \in tagT : \E al \in aliasT : al.alias = tagName /\ al.tag = t.tag}
        tagRows == {t \in tagT : t.tag = tagName}
    IN  IF tagRows # {} THEN {Row(tagRows)}
        ELSE IF aliasRows = {} THEN {}
        ELSE {Row(aliasRows)}

\* Tag.readByTagName on given tables: TagAlias JOIN Tag first, then Tag; the
\* result is {tag} or, for the null it returns, {}
readByTagNameIn(tagT, aliasT, tagName) ==
    LET aliasRows == {t \in tagT : \E al \in aliasT : al.alias = tagName /\ al.tag = t.tag}
        tagRows == {t \in tagT : t.tag = tagName}
    IN  IF aliasRows # {} THEN {Row(aliasRows)}
        ELSE IF tagRows = {} THEN {}
        ELSE {Row(tagRows)}

readByTagName(tagName) == readByTagNameIn(Tag, TagAlias, tagName)

\* Gif.tags getter: names of the GifTag rows of the item
gifTags(fileUniqueId) == {gt.tag : gt \in {r \in GifTag : r.fileUniqueId = fileUniqueId}}

\* Gif.sources getter
gifSources(fileUniqueId) == {s.source : s \in {r \in Source : r.fileUniqueId = fileUniqueId}}

\* Tag.aliases getter
tagAliases(tag) == {al.alias : al \in {r \in TagAlias : r.tag = tag}}

\* ------------------------------------------------------------------------
\* Gif.search: the statement it builds and what the statement selects
\* ------------------------------------------------------------------------

startsWithDash(tok) == tok \in NegatedTokens

\* tags.filter(tag => !tag.startsWith("-"))
includeTags(tags) == SelectSeq(tags, LAMBDA tok : ~startsWithDash(tok))
\* tags.filter(tag => tag.startsWith("-")): the tokens keep their dash
negateTags(tags) == SelectSeq(tags, LAMBDA tok : startsWithDash(tok))

\* if (rating): null and "" are falsy
Truthy(rating) == rating # NULL

\* "?, ?, ?" for n placeholders (the separating commas left out)
Placeholders(n) == [i \in 1..n |-> "?"]

\* the text of the statement as the lexemes that decide whether it parses
SearchSql(tags, rating) ==
    LET inc == includeTags(tags)
        neg == negateTags(tags)
        s0 == <<"SELECT DISTINCT Gif.* FROM Gif JOIN GifTag JOIN Tag LEFT JOIN TagAlias",
                "WHERE Gif.rating IS NOT NULL">>
        s1 == IF Truthy(rating) THEN s0 \o <<"AND Gif.rating =", "?">> ELSE s0
        s2 == IF Len(tags) > 0 THEN s1 \o <<"AND">> ELSE s1
        s3 == IF Len(inc) > 0
              THEN s2 \o <<"(", "Tag.tag IN", "(">> \o Placeholders(Len(inc))
                      \o <<")", "OR", "TagAlias.alias IN", "(">> \o Placeholders(Len(inc))
                      \o <<")", ")">>
              ELSE s2
        s4 == IF Len(inc) > 0 /\ Len(neg) > 0 THEN s3 \o <<"AND">> ELSE s3
        s5 == IF Len(neg) > 0
              THEN s4 \o <<"Gif.fileUniqueId NOT IN", "(",
                           "SELECT Gif.fileUniqueId FROM Gif JOIN GifTag JOIN Tag LEFT JOIN TagAlias",
                           "WHERE", "(", "Tag.tag IN", "(">> \o Placeholders(Len(neg))
                      \o <<")", "OR", "TagAlias.alias IN", "(">> \o Placeholders(Len(neg))
                      \o <<")", ")">>
              ELSE s4
        s6 == IF Len(inc) > 0
              THEN s5 \o <<"GROUP BY Gif.fileUniqueId HAVING COUNT(Gif.fileUniqueId)=len">>
              ELSE s5
    IN  s6 \o <<"LIMIT", "?", "OFFSET", "?">>

\* the values bound to the placeholders
SearchValues(tags, rating, page, limit) ==
    (IF Truthy(rating) THEN <<rating>> ELSE <<>>)
        \o includeTags(tags) \o includeTags(tags)
        \o negateTags(tags) \o negateTags(tags)
        \o <<limit, limit * page>>

\* nesting depth of parentheses after the first n lexemes; -1 once a ")" had no "("
RECURSIVE ParenDepth(_, _)
ParenDepth(sql, n) ==
    IF n = 0 THEN 0
    ELSE LET d == ParenDepth(sql, n - 1)
         IN  IF d < 0 THEN d
             ELSE IF sql[n] = "(" THEN d + 1
             ELSE IF sql[n] = ")" THEN d - 1
             ELSE d

NumPlaceholders(sql) == Cardinality({i \in 1..Len(sql) : sql[i] = "?"})

\* the server parses the statement: parentheses closed, one value per placeholder
SqlAccepted(sql, values) ==
    /\ ParenDepth(sql, Len(sql)) = 0
    /\ NumPlaceholders(sql) = Len(values)

\* FROM Gif JOIN GifTag JOIN Tag LEFT JOIN TagAlias: one row per (item, tag, alias),
\* alias NULL for a tag without aliases
JoinedRows ==
    UNION {
        LET als == {al \in TagAlias : al.tag = gt.tag}
        IN  IF als = {}
            THEN {[gif |-> g, tag |-> gt.tag, alias |-> NULL]}
            ELSE {[gif |-> g, tag |-> gt.tag, alias |-> al.alias] : al \in als}
        : <<g, gt>> \in {p \in Gif \X GifTag :
                            /\ p[1].fileUniqueId = p[2].fileUniqueId
                            /\ \E t \in Tag : t.tag = p[2].tag}}

\* (Tag.tag IN (values) OR TagAlias.alias IN (values)); NULL IN (..) is not true
TagOrAliasIn(row, values) ==
    row.tag \in Range(values) \/ (row.alias # NULL /\ row.alias \in Range(values))

\* mutant: the statement without "Gif.rating IS NOT NULL"
RatingIsNotNullDropped(g) == TRUE

\* WHERE Gif.rating IS NOT NULL
RatingIsNotNull(g) == g.rating # NULL

\* mutant: the rating clause is never appended
RatingClauseDropped(g, rating) == TRUE

\* if (rating) sql += "AND Gif.rating = ?"
RatingClause(g, rating) == Truthy(rating) => g.rating = rating

\* the ids the NOT IN subquery selects
NegatedIds(neg) == {row.gif.fileUniqueId : row \in {r \in JoinedRows : TagOrAliasIn(r, neg)}}

\* rows of the join that pass WHERE
WhereRows(tags, rating) ==
    LET inc == includeTags(tags)
        neg == negateTags(tags)
    IN  {row \in JoinedRows :
            /\ RatingIsNotNull(row.gif)
            /\ RatingClause(row.gif, rating)
            /\ (Len(inc) > 0 => TagOrAliasIn(row, inc))
            /\ (Len(neg) > 0 => row.gif.fileUniqueId \notin NegatedIds(neg))}

\* GROUP BY Gif.fileUniqueId HAVING COUNT(Gif.fileUniqueId) = includeTags.length
HavingCount(rows, g, inc) == Cardinality({row \in rows : row.gif = g}) = Len(inc)

\* SELECT DISTINCT Gif.* of the statement, before LIMIT and OFFSET
SelectedGifs(tags, rating) ==
    LET inc == includeTags(tags)
        rows == WhereRows(tags, rating)
    IN  IF Len(inc) > 0
        THEN {g \in {row.gif : row \in rows} : HavingCount(rows, g, inc)}
        ELSE {row.gif : row \in rows}

\* LIMIT limit OFFSET limit * page over an order the statement leaves open
PageOf(selected, page, limit) ==
    {S \in SUBSET selected :
        Cardinality(S) = Min(limit, Max(0, Cardinality(selected) - limit * page))}

\* Gif.search({tags, rating, page, limit}). The response keeps the query's tags
\* and rating and whether the page holds the whole selection (page 0 and a limit
\* of at least the number of stored items).
Search(tags, rating) ==
    /\ resp = NoResp
    /\ UNCHANGED <<task, User>>
    /\ LET sql == SearchSql(tags, rating)
           selected == SelectedGifs(tags, rating)
           query == [op |-> "search", tags |-> tags, rating |-> rating]
       IN  \E page \in Pages, limit \in 1..MaxLimit :
             IF SqlAccepted(sql, SearchValues(tags, rating, page, limit))
             THEN \E rows \in PageOf(selected, page, limit) :
                    resp' = query @@ [status |-> "ok", rows |-> rows,
                                      whole |-> (page = 0 /\ limit >= Cardinality(Gif))]
             ELSE resp' = query @@ [status |-> "GifReadError", rows |-> {}, whole |-> FALSE]
    /\ UNCHANGED tables

\* what Gif.search may return for the first page of the default size (the
\* callers of GifController.search leave page and limit out when they can)
SearchAnswers(tags, rating) ==
    LET query == [op |-> "search", tags |-> tags, rating |-> rating]
    IN  IF SqlAccepted(SearchSql(tags, rating), SearchValues(tags, rating, 0, MaxLimit))
        THEN {query @@ [status |-> "ok", rows |-> rows,
                        whole |-> MaxLimit >= Cardinality(Gif)] :
                    rows \in PageOf(SelectedGifs(tags, rating), 0, MaxLimit)}
        ELSE {query @@ [status |-> "GifReadError", rows |-> {}, whole |-> FALSE]}

\* ------------------------------------------------------------------------
\* Reconciliation of a stored set with a desired list, run with nothing else
\* touching the parent: what the tags / sources / aliases setters leave behind
\* ------------------------------------------------------------------------

\* members the add loop issues an insertion for: those not in the set it reads
ToAdd(current, desired) == {m \in Range(desired) : m \notin current}
\* members the remove loop issues a deletion for
ToRemove(existing, desired) == {m \in existing : m \notin Range(desired)}

\* a member listed twice and not yet stored: the second read of the add loop may
\* or may not see the first insertion, so a second insertion may be issued
MayInsertTwice(current, desired) ==
    \E i, j \in 1..Len(desired) :
        i < j /\ desired[i] = desired[j] /\ desired[i] \notin current

\* The stored set after the setter has run to its end. `rejected` are the members
\* whose insertion the store refuses. When an insertion of the add phase is
\* refused the setter throws before its remove phase.
ReconcileOutcomes(current, desired, rejected) ==
    LET inserted == ToAdd(current, desired) \ rejected
        afterAdd == current \cup inserted
        refused == ToAdd(current, desired) \cap rejected # {}
    IN  (IF refused \/ MayInsertTwice(current, desired)
         THEN {[phase |-> "addError", set |-> afterAdd]} ELSE {})
        \cup
        (IF ~refused
         THEN {[phase |-> "done", set |-> afterAdd \ ToRemove(afterAdd, desired)]} ELSE {})

\* ------------------------------------------------------------------------
\* GifController handlers, each run to its end before the next one starts
\* ------------------------------------------------------------------------

\* new Gif(properties): rating is properties.rating || null
newGif(fileUniqueId, uploadedById) ==
    [fileUniqueId |-> fileUniqueId, rating |-> NULL, uploadedById |-> uploadedById]

\* mutant: create writes the record of the caller whether or not the key is stored
CreateOverwrites(requester, fileUniqueId) ==
    /\ resp = NoResp
    /\ UNCHANGED <<task, User>>
    /\ Gif' = {g \in Gif : g.fileUniqueId # fileUniqueId}
                \cup {newGif(fileUniqueId, requester.id)}
    /\ resp' = [op |-> "create", requester |-> requester, status |-> "ok",
                gif |-> newGif(fileUniqueId, requester.id)]
    /\ UNCHANGED <<Tag, TagAlias, GifTag, Source>>

\* GifController.create(requester, properties)
Create(requester, fileUniqueId) ==
    /\ resp = NoResp
    /\ UNCHANGED <<task, User>>
    /\ LET gif == readById(fileUniqueId)
           call == [op |-> "create", requester |-> requester, status |-> "ok"]
       IN  IF gif # {}
           THEN /\ resp' = call @@ [gif |-> Row(gif)]
                /\ UNCHANGED tables
           ELSE /\ Gif' = Gif \cup {newGif(fileUniqueId, requester.id)}
                /\ resp' = call @@ [gif |-> newGif(fileUniqueId, requester.id)]
                /\ UNCHANGED <<Tag, TagAlias, GifTag, Source>>

\* GifController.readById failing: createError(404, "Gif not found.")
NotFound(op, fileUniqueId) ==
    /\ resp = NoResp
    /\ UNCHANGED <<task, User>>
    /\ readById(fileUniqueId) = {}
    /\ resp' = [op |-> op, fileUniqueId |-> fileUniqueId, status |-> "NotFound"]
    /\ UNCHANGED tables

\* mutant: the update of an item that has a rating clears it
SetRatingClears(fileUniqueId, rating) ==
    /\ resp = NoResp
    /\ UNCHANGED <<task, User>>
    /\ readById(fileUniqueId) # {}
    /\ LET gif == Row(readById(fileUniqueId))
       IN  Gif' = (Gif \ {gif})
                    \cup {[gif EXCEPT !.rating = IF gif.rating = NULL THEN rating ELSE NULL]}
    /\ resp' = [op |-> "update", fileUniqueId |-> fileUniqueId, status |-> "ok"]
    /\ UNCHANGED <<Tag, TagAlias, GifTag, Source>>

\* GifController.update(gif, {rating}): gif.rating = changes.rating; gif.update()
SetRating(fileUniqueId, rating) ==
    /\ resp = NoResp
    /\ UNCHANGED <<task, User>>
    /\ readById(fileUniqueId) # {}
    /\ LET gif == Row(readById(fileUniqueId))
       IN  Gif' = (Gif \ {gif}) \cup {[gif EXCEPT !.rating = rating]}
    /\ resp' = [op |-> "update", fileUniqueId |-> fileUniqueId, status |-> "ok"]
    /\ UNCHANGED <<Tag, TagAlias, GifTag, Source>>

\* new Tag({tag: tagName}): category defaults to "general"
newTag(tagName) == [tag |-> tagName, category |-> "general"]

\* the loop of GifController.update over changes.tags: each name is replaced by
\* the Tag it resolves to, created first when it resolves to nothing
RECURSIVE resolveTags(_, _)
resolveTags(tagNames, tagT) ==
    IF tagNames = <<>> THEN [tags |-> <<>>, table |-> tagT]
    ELSE LET tag == readByTagNameIn(tagT, TagAlias, Head(tagNames))
             made == IF tag = {} THEN newTag(Head(tagNames)) ELSE Row(tag)
             rest == resolveTags(Tail(tagNames), tagT \cup {made})
         IN  [tags |-> <<made.tag>> \o rest.tags, table |-> rest.table]

\* GifController.update(gif, {tags}): resolve the names, then the tags setter
ReplaceTags(fileUniqueId, tagNames) ==
    /\ resp = NoResp
    /\ UNCHANGED <<task, User>>
    /\ readById(fileUniqueId) # {}
    /\ LET r == resolveTags(tagNames, Tag)
       IN  /\ Tag' = r.table
           /\ \E o \in ReconcileOutcomes(gifTags(fileUniqueId), r.tags, {}) :
                GifTag' = {gt \in GifTag : gt.fileUniqueId # fileUniqueId}
                            \cup {[fileUniqueId |-> fileUniqueId, tag |-> t] : t \in o.set}
    /\ resp' = [op |-> "update", fileUniqueId |-> fileUniqueId, status |-> "ok"]
    /\ UNCHANGED <<Gif, TagAlias, Source>>

\* GifController.update(gif, {sources}): the sources setter
ReplaceSources(fileUniqueId, sources) ==
    /\ resp = NoResp
    /\ UNCHANGED <<task, User>>
    /\ readById(fileUniqueId) # {}
    /\ \E o \in ReconcileOutcomes(gifSources(fileUniqueId), sources, {}) :
            Source' = {s \in Source : s.fileUniqueId # fileUniqueId}
                        \cup {[source |-> u, fileUniqueId |-> fileUniqueId] : u \in o.set}
    /\ resp' = [op |-> "update", fileUniqueId |-> fileUniqueId, status |-> "ok"]
    /\ UNCHANGED <<Gif, Tag, TagAlias, GifTag>>

\* the test of GifController.delete
mayDelete(requester, gif) ==
    requester.id = gif.uploadedById \/ requester.role \in {"moderator", "administrator"}

\* GifController.delete(requester, gif): DELETE FROM Gif, cascading to GifTag and Source
Delete(requester, fileUniqueId) ==
    /\ resp = NoResp
    /\ UNCHANGED <<task, User>>
    /\ readById(fileUniqueId) # {}
    /\ LET gif == Row(readById(fileUniqueId))
           call == [op |-> "delete", requester |-> requester, gif |-> gif]
       IN  IF mayDelete(requester, gif)
           THEN /\ Gif' = Gif \ {gif}
                /\ GifTag' = {gt \in GifTag : gt.fileUniqueId # fileUniqueId}
                /\ Source' = {s \in Source : s.fileUniqueId # fileUniqueId}
                /\ resp' = call @@ [status |-> "ok"]
                /\ UNCHANGED <<Tag, TagAlias>>
           ELSE /\ resp' = call @@ [status |-> "Unauthorized"]
                /\ UNCHANGED tables

\* Tag.aliases setter on a stored tag. TagAlias has the alias as its key: an
\* alias that another tag has registered is refused.
SetAliases(tag, newAliasesList) ==
    /\ resp = NoResp
    /\ UNCHANGED <<task, User>>
    /\ \E t \in Tag : t.tag = tag
    /\ LET taken == {al.alias : al \in {r \in TagAlias : r.tag # tag}}
       IN  \E o \in ReconcileOutcomes(tagAliases(tag), newAliasesList, taken) :
                TagAlias' = {al \in TagAlias : al.tag # tag}
                              \cup {[tag |-> tag, alias |-> a] : a \in o.set}
    /\ resp' = [op |-> "aliases", tag |-> tag, status |-> "ok"]
    /\ UNCHANGED <<Gif, Tag, GifTag, Source>>

\* the caller has taken the response; the next call can start
Deliver ==
    /\ resp # NoResp
    /\ resp' = NoResp
    /\ UNCHANGED <<tables, task, User>>

\* ------------------------------------------------------------------------
\* The setters step by step: Gif.tags, Gif.sources, Tag.aliases. Each is an
\* async function that reads the stored set before every decision and hands
\* its insertions and deletions to the connection pool, which runs them in
\* any order.
\* ------------------------------------------------------------------------
Procs == {"p1", "p2"}
Kinds == {"tags", "sources", "aliases"}

IdleTask == [pc |-> "idle"]

\* the set the getter of the kind reads for the parent
stored(kind, parent) ==
    CASE kind = "tags" -> gifTags(parent)
      [] kind = "sources" -> gifSources(parent)
      [] kind = "aliases" -> tagAliases(parent)

\* mutant: an insertion is issued for every desired member, stored or not
addIsNeededAlways(existing, newMember) == TRUE

\* typeof found === "undefined" / !(await this.aliases).includes(newAlias)
addIsNeeded(existing, newMember) == newMember \notin existing

\* mutant: a deletion is issued for every stored member
removeIsNeededAlways(newList, existingMember) == TRUE

\* mutant: a deletion is issued for the stored members that are in the new list
removeIsNeededInverted(newList, existingMember) == existingMember \in Range(newList)

\* typeof found === "undefined" / !newSourcesList.includes(existingSource.source)
removeIsNeeded(newList, existingMember) == existingMember \notin Range(newList)

\* some order of the rows a read returned
RECURSIVE SeqOf(_)
SeqOf(S) ==
    IF S = {} THEN <<>>
    ELSE LET x == CHOOSE y \in S : TRUE IN <<x>> \o SeqOf(S \ {x})

pendingCall(member) == [member |-> member, st |-> "pending"]

\* the assignment gif.tags = list (or sources, aliases): the setter starts
startTask(kind, parent, desired, initial, again) ==
    [pc |-> IF desired = <<>> THEN "awaitAdd" ELSE "add",
     kind |-> kind, parent |-> parent, desired |-> desired, i |-> 1,
     adds |-> <<>>, dels |-> <<>>, initial |-> initial, again |-> again]

Launch(p, kind, parent, desired) ==
    /\ task[p].pc = "idle"
    /\ task' = [task EXCEPT ![p] =
                    startTask(kind, parent, desired, stored(kind, parent), FALSE)]
    /\ UNCHANGED <<tables, resp, User>>

\* the same assignment made again after the setter has run to its end
Relaunch(p) ==
    /\ task[p].pc = "done"
    /\ ~task[p].again
    /\ task' = [task EXCEPT ![p] =
                    startTask(task[p].kind, task[p].parent, task[p].desired,
                              task[p].initial, TRUE)]
    /\ UNCHANGED <<tables, resp, User>>

\* mutant: a turn of the add loop that issues its insertion without reading
AddStepBlind(p) ==
    /\ task[p].pc = "add"
    /\ LET t == task[p]
       IN  task' = [task EXCEPT ![p] =
                [t EXCEPT !.adds = Append(t.adds, pendingCall(t.desired[t.i])),
                          !.i = t.i + 1,
                          !.pc = IF t.i = Len(t.desired) THEN "awaitAdd" ELSE "add"]]
    /\ UNCHANGED <<tables, resp, User>>

\* one turn of the add loop: read the stored set, issue the insertion when the
\* new member is not in it
AddStep(p) ==
    /\ task[p].pc = "add"
    /\ LET t == task[p]
           existing == stored(t.kind, t.parent)
           newMember == t.desired[t.i]
       IN  task' = [task EXCEPT ![p] =
                [t EXCEPT !.adds = IF addIsNeeded(existing, newMember)
                                   THEN Append(t.adds, pendingCall(newMember)) ELSE t.adds,
                          !.i = t.i + 1,
                          !.pc = IF t.i = Len(t.desired) THEN "awaitAdd" ELSE "add"]]
    /\ UNCHANGED <<tables, resp, User>>

\* mutant: the store tests the primary key only, not the foreign keys
insertAcceptedUnreferenced(kind, parent, member) ==
    CASE kind = "tags" -> [fileUniqueId |-> parent, tag |-> member] \notin GifTag
      [] kind = "sources" -> [source |-> member, fileUniqueId |-> parent] \notin Source
      [] kind = "aliases" -> \A al \in TagAlias : al.alias # member

\* the store takes an INSERT: the keys and foreign keys of the table decide
insertAccepted(kind, parent, member) ==
    CASE kind = "tags" ->
            /\ readById(parent) # {}
            /\ \E t \in Tag : t.tag = member
            /\ [fileUniqueId |-> parent, tag |-> member] \notin GifTag
      [] kind = "sources" ->
            /\ readById(parent) # {}
            /\ [source |-> member, fileUniqueId |-> parent] \notin Source
      [] kind = "aliases" ->
            /\ \E t \in Tag : t.tag = parent
            /\ \A al \in TagAlias : al.alias # member

\* the pool runs a pending insertion of the add phase
DbInsert(p) ==
    /\ task[p].pc # "idle"
    /\ \E n \in 1..Len(task[p].adds) :
        /\ task[p].adds[n].st = "pending"
        /\ LET t == task[p]
               m == t.adds[n].member
               ok == insertAccepted(t.kind, t.parent, m)
           IN  /\ task' = [task EXCEPT ![p].adds[n].st = IF ok THEN "ok" ELSE "rejected"]
               /\ GifTag' = IF ok /\ t.kind = "tags"
                            THEN GifTag \cup {[fileUniqueId |-> t.parent, tag |-> m]} ELSE GifTag
               /\ Source' = IF ok /\ t.kind = "sources"
                            THEN Source \cup {[source |-> m, fileUniqueId |-> t.parent]} ELSE Source
               /\ TagAlias' = IF ok /\ t.kind = "aliases"
                              THEN TagAlias \cup {[tag |-> t.parent, alias |-> m]} ELSE TagAlias
        /\ UNCHANGED <<Gif, Tag, resp, User>>

\* mutant: the remove phase follows the add phase once every insertion has been
\* answered, rejected or not
AwaitAddLenient(p) ==
    /\ task[p].pc = "awaitAdd"
    /\ \A c \in Range(task[p].adds) : c.st # "pending"
    /\ task' = [task EXCEPT ![p].pc = "remove"]
    /\ UNCHANGED <<tables, resp, User>>

\* await Promise.all(addCalls): rejected as soon as one insertion is, fulfilled
\* once all are
AwaitAdd(p) ==
    /\ task[p].pc = "awaitAdd"
    /\ LET calls == Range(task[p].adds)
       IN  \/ /\ \E c \in calls : c.st = "rejected"
              /\ task' = [task EXCEPT ![p].pc = "addError"]
           \/ /\ \A c \in calls : c.st = "ok"
              /\ task' = [task EXCEPT ![p].pc = "remove"]
    /\ UNCHANGED <<tables, resp, User>>

\* mutant: the remove loop issues no deletion
RemoveStepNothing(p) ==
    /\ task[p].pc = "remove"
    /\ task' = [task EXCEPT ![p].pc = "awaitRemove"]
    /\ UNCHANGED <<tables, resp, User>>

\* mutant: the remove loop works on the set that was stored when the run started
RemoveStepFromSnapshot(p) ==
    /\ task[p].pc = "remove"
    /\ LET t == task[p]
           gone == {m \in t.initial : removeIsNeeded(t.desired, m)}
       IN  task' = [task EXCEPT ![p] =
                [t EXCEPT !.dels = [n \in 1..Cardinality(gone) |-> pendingCall(SeqOf(gone)[n])],
                          !.pc = "awaitRemove"]]
    /\ UNCHANGED <<tables, resp, User>>

\* the remove loop: one read of the stored set, a deletion issued for every
\* member that is not in the new list
RemoveStep(p) ==
    /\ task[p].pc = "remove"
    /\ LET t == task[p]
           existing == stored(t.kind, t.parent)
           gone == {m \in existing : removeIsNeeded(t.desired, m)}
       IN  task' = [task EXCEPT ![p] =
                [t EXCEPT !.dels = [n \in 1..Cardinality(gone) |-> pendingCall(SeqOf(gone)[n])],
                          !.pc = "awaitRemove"]]
    /\ UNCHANGED <<tables, resp, User>>

\* the pool runs a pending DELETE: it succeeds whether or not the row is there
DbDelete(p) ==
    /\ task[p].pc # "idle"
    /\ \E n \in 1..Len(task[p].dels) :
        /\ task[p].dels[n].st = "pending"
        /\ LET t == task[p]
               m == t.dels[n].member
           IN  /\ task' = [task EXCEPT ![p].dels[n].st = "ok"]
               /\ GifTag' = IF t.kind = "tags"
                            THEN GifTag \ {[fileUniqueId |-> t.parent, tag |-> m]} ELSE GifTag
               /\ Source' = IF t.kind = "sources"
                            THEN Source \ {[source |-> m, fileUniqueId |-> t.parent]} ELSE Source
               /\ TagAlias' = IF t.kind = "aliases"
                              THEN TagAlias \ {[tag |-> t.parent, alias |-> m]} ELSE TagAlias
        /\ UNCHANGED <<Gif, Tag, resp, User>>

\* await Promise.all(deleteCalls)
AwaitRemove(p) ==
    /\ task[p].pc = "awaitRemove"
    /\ LET calls == Range(task[p].dels)
       IN  \/ /\ \E c \in calls : c.st = "rejected"
              /\ task' = [task EXCEPT ![p].pc = "removeError"]
           \/ /\ \A c \in calls : c.st = "ok"
              /\ task' = [task EXCEPT ![p].pc = "done"]
    /\ UNCHANGED <<tables, resp, User>>

\* ------------------------------------------------------------------------
\* Specification: the handlers called one after the other
\* ------------------------------------------------------------------------
Requesters == [id : UserIds, role : Roles]
\* tag lists of a search: no token twice
TokenLists == {tags \in SeqsUpTo(Tokens, MaxTokens) : IsDuplicateFree(tags)}

Init ==
    /\ Gif = {}
    /\ Tag = {}
    /\ TagAlias = {}
    /\ GifTag = {}
    /\ Source = {}
    /\ resp = NoResp
    /\ task = [p \in Procs |-> IdleTask]
    /\ User = {}

\* one uploader tags, rates and deletes two items and gives the first a source;
\* aliases are set; anyone searches
Uploader == [id |-> "u1", role |-> "user"]

Next ==
    \/ \E k \in Keys : Create(Uploader, k)
    \/ \E k \in Keys, rating \in Ratings : SetRating(k, rating)
    \/ \E k \in Keys, tagNames \in SeqsUpTo(TagNames, MaxLen) : ReplaceTags(k, tagNames)
    \/ \E k \in Keys : Delete(Uploader, k)
    \/ \E sources \in SeqsUpTo({"s1"}, MaxLen) : ReplaceSources("k1", sources)
    \/ \E t \in TagNames, aliases \in SeqsUpTo(AliasNames, MaxLen) : SetAliases(t, aliases)
    \/ \E tags \in TokenLists, rating \in Ratings \cup {NULL} : Search(tags, rating)
    \/ Deliver

Spec == Init /\ [][Next]_vars

\* ------------------------------------------------------------------------
\* Properties of Gif.search (checked under Spec)
\* ------------------------------------------------------------------------

\* the item carries a tag named tok or a tag that has the alias tok
Carries(fileUniqueId, tok) ==
    \E t \in gifTags(fileUniqueId) : t = tok \/ tok \in tagAliases(t)

Searched == resp.op = "search"

\* C1: whatever the store and the query, every item Gif.search returns is a row of
\* the store with a non-null rating; an unrated item is never returned.
C1_UnratedNeverReturned ==
    Searched => \A row \in resp.rows : row \in Gif /\ row.rating # NULL

\* C1 witness: a search returned an item while an unrated item that carries one of
\* the queried tags was in the store and was left out.
C1_Witness ==
    /\ Searched
    /\ resp.rows # {}
    /\ \E g \in Gif : /\ g.rating = NULL
                      /\ g \notin resp.rows
                      /\ \E tok \in Range(resp.tags) : Carries(g.fileUniqueId, tok)

\* C2: for distinct positive tokens, an item is returned only if it carries, for
\* every token, a tag of that name or a tag with that alias.
C2_EveryPositiveTokenMatches ==
    (Searched /\ IsDuplicateFree(includeTags(resp.tags))) =>
        \A row \in resp.rows : \A tok \in Range(includeTags(resp.tags)) :
            Carries(row.fileUniqueId, tok)

\* C3: a query with a negated token "-n" completes without error and returns no
\* item that carries a tag named n or a tag with alias n.
C3_NegatedTokenExcludes ==
    (Searched /\ negateTags(resp.tags) # <<>>) =>
        /\ resp.status = "ok"
        /\ \A row \in resp.rows : \A tok \in Range(negateTags(resp.tags)) :
                ~Carries(row.fileUniqueId, StripDash(tok))

\* C4: a search with rating "safe" returns only items whose stored rating is "safe".
C4_SafeSearchReturnsSafe ==
    (Searched /\ resp.rating = "safe") =>
        \A row \in resp.rows : row \in Gif /\ row.rating = "safe"

\* C4 witness: a "safe" search returned an item while an item rated "explicit" that
\* carries every queried tag was in the store.
C4_Witness ==
    /\ Searched
    /\ resp.rating = "safe"
    /\ resp.rows # {}
    /\ resp.tags # <<>>
    /\ \E g \in Gif : /\ g.rating = "explicit"
                      /\ \A tok \in Range(resp.tags) : Carries(g.fileUniqueId, tok)

\* C5: when tag t has alias a and a rated item carries t, the search for the single
\* token a (page 0, limit at least the number of items) returns the item.
C5_AliasSearchFindsItem ==
    \A al \in TagAlias : \A g \in Gif :
        ( /\ Searched
          /\ resp.tags = <<al.alias>>
          /\ resp.whole
          /\ g.rating # NULL
          /\ resp.rating \in {NULL, g.rating}
          /\ al.tag \in gifTags(g.fileUniqueId) ) => g \in resp.rows

\* the rated items, restricted to the rating of the query when it has one
RatedItems(rating) ==
    {g \in Gif : g.rating # NULL /\ (rating # NULL => g.rating = rating)}

\* C11: a search with an empty tag list (page 0, limit at least the number of
\* items) returns all rated items, of the given rating when one is given,
\* those that carry no tag included.
C11_EmptyTagListReturnsAllRated ==
    (Searched /\ resp.tags = <<>> /\ resp.whole) =>
        /\ resp.status = "ok"
        /\ resp.rows = RatedItems(resp.rating)

\* ------------------------------------------------------------------------
\* Properties of alias resolution (checked under Spec)
\* ------------------------------------------------------------------------

\* C17: in every state that tag creation and alias replacement reach, no alias
\* is also the name of a stored tag, and no alias is registered for two tags.
C17_AliasesDisjointFromTagNames ==
    /\ \A al \in TagAlias : \A t \in Tag : t.tag # al.alias
    /\ \A al1, al2 \in TagAlias : al1.alias = al2.alias => al1.tag = al2.tag

\* C19: a search whose list holds a name both as a positive token and negated
\* returns no item, whatever the store holds.
C19_ContradictoryQueryIsEmpty ==
    (Searched /\ \E n, m \in 1..Len(resp.tags) : resp.tags[m] = "-" \o resp.tags[n]) =>
        /\ resp.status = "ok"
        /\ resp.rows = {}

\* C22: a rated item that carries tag t is returned for the query [t] (when the
\* page holds the whole selection and the rating asked, if any, is the item's),
\* whatever the number of aliases of t.
C22_ResultIndependentOfAliasCount ==
    (Searched /\ resp.status = "ok" /\ resp.whole /\ Len(resp.tags) = 1) =>
        \A g \in RatedItems(resp.rating) :
            resp.tags[1] \in gifTags(g.fileUniqueId) => g \in resp.rows

\* C10: for every canonical tag c and every alias a registered for c,
\* Tag.readByTagName(c) and Tag.readByTagName(a) return the same tag, c.
C10_AliasResolvesLikeName ==
    \A al \in TagAlias :
        /\ readByTagName(al.alias) = readByTagName(al.tag)
        /\ \A t \in readByTagName(al.tag) : t.tag = al.tag
        /\ readByTagName(al.tag) # {}

\* ------------------------------------------------------------------------
\* Specification: one setter run on one parent, step by step, and run again
\* ------------------------------------------------------------------------

\* the members a setter is given: tags after resolution (names of stored tags),
\* source URLs, alias names; the callers have put them in lower case
MemberNames(kind) ==
    CASE kind = "tags" -> {"a", "b", "c"}
      [] kind = "sources" -> {"s1", "s2", "s3"}
      [] kind = "aliases" -> {"d", "e", "f"}

\* an alias that another tag has registered
TakenAlias == [tag |-> "b", alias |-> "f"]

\* the item or the tag whose set is replaced
RecParent(kind) == IF kind = "aliases" THEN "a" ELSE "k1"

\* one stored item, three stored tags, and a stored set of one of the kinds; when
\* it is a set of aliases, one more alias belongs to another tag
InitRec ==
    /\ Gif = {newGif("k1", "u1")}
    /\ Tag = {newTag(t) : t \in MemberNames("tags")}
    /\ \E kind \in Kinds : \E C \in SUBSET MemberNames(kind) :
            /\ TakenAlias.alias \notin C
            /\ GifTag = IF kind = "tags"
                        THEN {[fileUniqueId |-> RecParent(kind), tag |-> m] : m \in C} ELSE {}
            /\ Source = IF kind = "sources"
                        THEN {[source |-> m, fileUniqueId |-> RecParent(kind)] : m \in C} ELSE {}
            /\ TagAlias = IF kind = "aliases"
                          THEN {[tag |-> RecParent(kind), alias |-> m] : m \in C}
                                 \cup {TakenAlias}
                          ELSE {}
    /\ resp = NoResp
    /\ task = [p \in Procs |-> IdleTask]
    /\ User = {}

NextRec ==
    \/ \E kind \in Kinds : \E desired \in SeqsUpTo(MemberNames(kind), MaxLen) :
            Launch("p1", kind, RecParent(kind), desired)
    \/ AddStep("p1")
    \/ DbInsert("p1")
    \/ AwaitAdd("p1")
    \/ RemoveStep("p1")
    \/ DbDelete("p1")
    \/ AwaitRemove("p1")
    \/ Relaunch("p1")

SpecRec == InitRec /\ [][NextRec]_vars

\* ------------------------------------------------------------------------
\* Properties of the setters (checked under SpecRec)
\* ------------------------------------------------------------------------

\* the calls are one call for each member of S
OnePerMember(calls, S) ==
    /\ Len(calls) = Cardinality(S)
    /\ {calls[n].member : n \in 1..Len(calls)} = S

\* C6: one run of the tags or sources setter on stored set C with a duplicate-free
\* list D goes through both phases and issues exactly one insertion for each
\* member of D not in C, exactly one deletion for each member of C not in D, and
\* nothing else.
C6_ExactlyTheDifferenceIsWritten ==
    \A p \in Procs :
        LET t == task[p]
        IN  ( /\ t.pc # "idle"
              /\ ~t.again
              /\ t.kind \in {"tags", "sources"}
              /\ IsDuplicateFree(t.desired) ) =>
                /\ t.pc \notin {"addError", "removeError"}
                /\ (t.pc \in {"awaitAdd", "remove", "awaitRemove", "done"}) =>
                        OnePerMember(t.adds, ToAdd(t.initial, t.desired))
                /\ (t.pc \in {"awaitRemove", "done"}) =>
                        OnePerMember(t.dels, ToRemove(t.initial, t.desired))
                /\ (t.pc \in {"add", "awaitAdd", "remove"}) => t.dels = <<>>

\* C6 witness: the tags setter has run to its end on stored tags {a, b} with the
\* list (a, c): one insertion, of c, and one deletion, of b, both carried out.
C6_Witness ==
    \E p \in Procs :
        /\ task[p].pc = "done"
        /\ ~task[p].again
        /\ task[p].kind = "tags"
        /\ task[p].initial = {"a", "b"}
        /\ task[p].desired = <<"a", "c">>
        /\ task[p].adds = <<[member |-> "c", st |-> "ok"]>>
        /\ task[p].dels = <<[member |-> "b", st |-> "ok"]>>
        /\ gifTags(task[p].parent) = {"a", "c"}

\* C26: when the list names a member twice that is not stored, the run issues
\* one insertion for it at most, neither phase fails, and when the run has
\* ended the stored set is the set of the members of the list.
C26_RepeatedMemberInsertedOnce ==
    \A p \in Procs :
        LET t == task[p]
        IN  ( /\ t.pc # "idle"
              /\ ~t.again
              /\ t.kind \in {"tags", "sources"}
              /\ MayInsertTwice(t.initial, t.desired) ) =>
                /\ t.pc \notin {"addError", "removeError"}
                /\ \A n, m \in 1..Len(t.adds) : t.adds[n].member = t.adds[m].member => n = m
                /\ t.pc = "done" => stored(t.kind, t.parent) = Range(t.desired)

\* C7: when a setter has run to its end and the same list is assigned again, the
\* second run issues no insertion and no deletion, fails in neither phase, and
\* the stored set is the set of the list; for tags, sources and aliases.
C7_SecondRunWritesNothing ==
    \A p \in Procs :
        LET t == task[p]
        IN  (t.pc # "idle" /\ t.again) =>
                /\ t.adds = <<>>
                /\ t.dels = <<>>
                /\ t.pc \notin {"addError", "removeError"}
                /\ stored(t.kind, t.parent) = Range(t.desired)

\* C7 witness: the second run is over, after a first run that had a member to
\* insert and a member to delete.
C7_Witness ==
    \E p \in Procs :
        /\ task[p].pc = "done"
        /\ task[p].again
        /\ ToAdd(task[p].initial, task[p].desired) # {}
        /\ ToRemove(task[p].initial, task[p].desired) # {}

\* ------------------------------------------------------------------------
\* Specification: the catalogue under every kind of requester
\* ------------------------------------------------------------------------

\* users of every role create, rate, tag, give sources to and delete two items
NextCatalog ==
    \/ \E requester \in Requesters, k \in Keys : Create(requester, k)
    \/ \E k \in Keys, rating \in Ratings : SetRating(k, rating)
    \/ \E k \in Keys, tagNames \in SeqsUpTo({"a"}, MaxLen) : ReplaceTags(k, tagNames)
    \/ \E k \in Keys, sources \in SeqsUpTo({"s1"}, MaxLen) : ReplaceSources(k, sources)
    \/ \E requester \in Requesters, k \in Keys : Delete(requester, k)
    \/ \E op \in {"update", "delete"}, k \in Keys : NotFound(op, k)
    \/ Deliver

SpecCatalog == Init /\ [][NextCatalog]_vars

\* ------------------------------------------------------------------------
\* Properties of GifController.create and GifController.delete
\* (checked under SpecCatalog)
\* ------------------------------------------------------------------------

\* C8: a create for a key that is already stored writes nothing and returns the
\* stored record, whoever calls it: the returned uploader is the one of the first
\* create, and the stored uploader, rating, tags and sources are as before. A
\* create for a key that is not stored returns a record uploaded by the caller.
C8_CreateIsIdempotentPerKey ==
    [][\A k \in Keys :
         (resp'.op = "create" /\ resp = NoResp /\ resp'.gif.fileUniqueId = k) =>
            IF readById(k) # {}
            THEN /\ resp'.gif = Row(readById(k))
                 /\ tables' = tables
            ELSE /\ resp'.gif.uploadedById = resp'.requester.id
                 /\ readById(k)' = {resp'.gif}]_vars

\* C8 witness: create was called by a user other than the uploader for a stored
\* item that has a rating, a tag and a source, and answered with the stored record.
C8_Witness ==
    /\ resp.op = "create"
    /\ resp.requester.id # resp.gif.uploadedById
    /\ resp.gif \in Gif
    /\ resp.gif.rating # NULL
    /\ gifTags(resp.gif.fileUniqueId) # {}
    /\ gifSources(resp.gif.fileUniqueId) # {}

\* C9: delete removes the item if and only if the requester is its uploader and the
\* item has no rating yet, or the requester is a moderator or an administrator;
\* in every other case it answers Unauthorized.
C9_DeleteOnlyBeforeVetting ==
    resp.op = "delete" /\ resp.status \in {"ok", "Unauthorized"} =>
        (resp.status = "ok" <=>
            \/ resp.requester.id = resp.gif.uploadedById /\ resp.gif.rating = NULL
            \/ resp.requester.role \in {"moderator", "administrator"})

\* the item of the key is stored and has a rating
Rated(k) == \E g \in readById(k) : g.rating # NULL

\* C29: an item that has a rating keeps one through every update (of rating,
\* tags or sources) and every other call, as long as it is stored; it leaves
\* the store only by a delete; and an item that enters the store is unrated.
C29_RatingIsMonotone ==
    [][\A k \in Keys :
         /\ (Rated(k) /\ readById(k)' # {}) => Rated(k)'
         /\ (Rated(k) /\ readById(k)' = {}) => resp'.op = "delete" /\ resp'.status = "ok"
         /\ (readById(k) = {} /\ readById(k)' # {}) => ~Rated(k)']_vars

\* C29 witness: an item rated "explicit" that has a tag and a source has just
\* been updated.
C29_Witness ==
    /\ resp.op = "update"
    /\ resp.fileUniqueId = "k1"
    /\ \E g \in readById("k1") : g.rating = "explicit"
    /\ gifTags("k1") = {"a"}
    /\ gifSources("k1") = {"s1"}

\* the store fails a statement of a first run (connection lost, lock wait
\* timeout): nothing is written and the promise of the call is rejected
DbFail(p) ==
    /\ task[p].pc # "idle"
    /\ ~task[p].again
    /\ \/ \E n \in 1..Len(task[p].adds) :
            /\ task[p].adds[n].st = "pending"
            /\ task' = [task EXCEPT ![p].adds[n].st = "rejected"]
       \/ \E n \in 1..Len(task[p].dels) :
            /\ task[p].dels[n].st = "pending"
            /\ task' = [task EXCEPT ![p].dels[n].st = "rejected"]
    /\ UNCHANGED <<tables, resp, User>>

\* ------------------------------------------------------------------------
\* GifController.update with its setter running on after the handler returned
\* ------------------------------------------------------------------------

\* every insertion and deletion the setter has handed to the pool has been run
Settled(t) ==
    \/ t.pc \in {"idle", "done"}
    \/ /\ t.pc \in {"addError", "removeError"}
       /\ \A n \in 1..Len(t.adds) : t.adds[n].st # "pending"
       /\ \A n \in 1..Len(t.dels) : t.dels[n].st # "pending"

\* GifController.update(gif, {tags: tagNames}): the names are resolved one after
\* the other (unknown ones created), gif.tags = ... starts the setter, and the
\* handler returns the gif without waiting for it; the task keeps the answer
\* the caller got
UpdateTags(p, fileUniqueId, tagNames) ==
    /\ resp = NoResp
    /\ Settled(task[p])
    /\ readById(fileUniqueId) # {}
    /\ LET r == resolveTags(tagNames, Tag)
       IN  /\ Tag' = r.table
           /\ task' = [task EXCEPT ![p] =
                        startTask("tags", fileUniqueId, r.tags, gifTags(fileUniqueId), FALSE)
                            @@ [names |-> tagNames, answer |-> "ok"]]
    /\ resp' = [op |-> "update", fileUniqueId |-> fileUniqueId, status |-> "ok"]
    /\ UNCHANGED <<Gif, TagAlias, GifTag, Source, User>>

\* GifController.update(gif, {sources: sources}): gif.sources = ... starts the
\* setter and the handler returns
UpdateSources(p, fileUniqueId, sources) ==
    /\ resp = NoResp
    /\ Settled(task[p])
    /\ readById(fileUniqueId) # {}
    /\ task' = [task EXCEPT ![p] =
                    startTask("sources", fileUniqueId, sources, gifSources(fileUniqueId), FALSE)
                        @@ [names |-> sources, answer |-> "ok"]]
    /\ resp' = [op |-> "update", fileUniqueId |-> fileUniqueId, status |-> "ok"]
    /\ UNCHANGED <<tables, User>>

\* ------------------------------------------------------------------------
\* Specification: updates of one item, one after the other, each with its
\* setter stepping on after the handler has returned
\* ------------------------------------------------------------------------

\* names given as tags: a stored tag, its alias, and a name stored nowhere
UpdateNames == {"a", "b", "c"}
UpdateUrls == {"s1", "s2"}

\* one stored item and the tag a with alias c
InitUpdate ==
    /\ Gif = {newGif("k1", "u1")}
    /\ Tag = {newTag("a")}
    /\ TagAlias = {[tag |-> "a", alias |-> "c"]}
    /\ GifTag = {}
    /\ Source = {}
    /\ resp = NoResp
    /\ task = [p \in Procs |-> IdleTask]
    /\ User = {}

NextUpdate ==
    \/ \E tagNames \in SeqsUpTo(UpdateNames, MaxLen) : UpdateTags("p1", "k1", tagNames)
    \/ \E sources \in SeqsUpTo(UpdateUrls, MaxLen) : UpdateSources("p1", "k1", sources)
    \/ AddStep("p1")
    \/ DbInsert("p1")
    \/ DbFail("p1")
    \/ AwaitAdd("p1")
    \/ RemoveStep("p1")
    \/ DbDelete("p1")
    \/ AwaitRemove("p1")
    \/ Deliver

\* the event loop runs every continuation that is ready and the pool runs every
\* statement it was handed
FairUpdate ==
    /\ WF_vars(AddStep("p1"))
    /\ WF_vars(DbInsert("p1"))
    /\ WF_vars(AwaitAdd("p1"))
    /\ WF_vars(RemoveStep("p1"))
    /\ WF_vars(DbDelete("p1"))
    /\ WF_vars(AwaitRemove("p1"))

SpecUpdate == InitUpdate /\ [][NextUpdate]_vars /\ FairUpdate

\* ------------------------------------------------------------------------
\* Properties of GifController.update (checked under SpecUpdate)
\* ------------------------------------------------------------------------

\* the set the update asked for: the tags its names resolve to, or its URLs
AskedSet(t) ==
    IF t.kind = "tags"
    THEN {tag.tag : tag \in UNION {readByTagName(n) : n \in Range(t.names)}}
    ELSE Range(t.names)

\* the store has refused a write of the setter
WriteRefused(t) ==
    /\ t.pc # "idle"
    /\ \/ \E n \in 1..Len(t.adds) : t.adds[n].st = "rejected"
       \/ \E n \in 1..Len(t.dels) : t.dels[n].st = "rejected"

\* the setter has run to its end and the stored set is the set asked for
Converged(t) ==
    /\ t.pc = "done"
    /\ stored(t.kind, t.parent) = AskedSet(t)

C14_FailedWriteIsReported ==
    WriteRefused(task["p1"]) =>
        task["p1"].answer \in {"GifTagAddError", "GifTagDeleteError",
                               "GifSourceCreateError", "GifSourceDeleteError"}

\* ------------------------------------------------------------------------
\* Specification: a setter run in which the store fails statements, and the
\* same assignment made again once the first run has settled
\* ------------------------------------------------------------------------

\* the assignment is made again after a run that stopped in its add or remove
\* phase and whose statements have all been run
Retry(p) ==
    /\ task[p].pc \in {"addError", "removeError"}
    /\ Settled(task[p])
    /\ ~task[p].again
    /\ task' = [task EXCEPT ![p] =
                    startTask(task[p].kind, task[p].parent, task[p].desired,
                              stored(task[p].kind, task[p].parent), TRUE)
                        @@ [stopped |-> task[p].pc, before |-> task[p].initial]]
    /\ UNCHANGED <<tables, resp, User>>

NextRetry ==
    \/ \E kind \in {"tags", "sources"} : \E desired \in SeqsUpTo(MemberNames(kind), MaxLen) :
            Launch("p1", kind, RecParent(kind), desired)
    \/ AddStep("p1")
    \/ DbInsert("p1")
    \/ DbFail("p1")
    \/ AwaitAdd("p1")
    \/ RemoveStep("p1")
    \/ DbDelete("p1")
    \/ AwaitRemove("p1")
    \/ Retry("p1")

\* the continuations of the setter run, and the store runs every statement
FairRetry ==
    /\ WF_vars(AddStep("p1"))
    /\ WF_vars(DbInsert("p1"))
    /\ WF_vars(AwaitAdd("p1"))
    /\ WF_vars(RemoveStep("p1"))
    /\ WF_vars(DbDelete("p1"))
    /\ WF_vars(AwaitRemove("p1"))

SpecRetry == InitRec /\ [][NextRetry]_vars /\ FairRetry

\* ------------------------------------------------------------------------
\* Properties of a retried setter (checked under SpecRetry)
\* ------------------------------------------------------------------------

\* the second run after a run that stopped partway, with a duplicate-free list
Retried(t) == t.pc # "idle" /\ t.again /\ IsDuplicateFree(t.desired)

\* the second run writes only what differs: insertions for desired members that
\* were not stored when it started, deletions for stored members not desired,
\* each once, and it fails in neither phase
RetryWritesTheDifference(t) ==
    /\ t.pc \notin {"addError", "removeError"}
    /\ \A n \in 1..Len(t.adds) : t.adds[n].member \in ToAdd(t.initial, t.desired)
    /\ \A n \in 1..Len(t.dels) : t.dels[n].member \in ToRemove(t.initial, t.desired)
    /\ \A n, m \in 1..Len(t.adds) : t.adds[n].member = t.adds[m].member => n = m
    /\ \A n, m \in 1..Len(t.dels) : t.dels[n].member = t.dels[m].member => n = m
    /\ t.pc = "done" => stored(t.kind, t.parent) = Range(t.desired)

\* C13: when a run of the tags or sources setter stopped partway because the
\* store failed an insertion or a deletion, the same assignment made again after
\* the first run has settled reaches its end with the stored set equal to the
\* desired set, issuing no insertion for a stored member and no deletion for an
\* absent one.
C13_RetryConverges ==
    /\ [](Retried(task["p1"]) => RetryWritesTheDifference(task["p1"]))
    /\ [](Retried(task["p1"]) => <>(task["p1"].pc = "done"))

\* C13 witness: the second run has ended after a first run that stopped in its
\* add phase with one of two insertions carried out: the second run inserted
\* the other member only, and deleted the member not desired.
C13_Witness ==
    /\ Retried(task["p1"])
    /\ task["p1"].pc = "done"
    /\ task["p1"].stopped = "addError"
    /\ task["p1"].before = {"c"}
    /\ task["p1"].initial = {"a", "c"}
    /\ task["p1"].desired = <<"a", "b">>
    /\ Len(task["p1"].adds) = 1
    /\ Len(task["p1"].dels) = 1
    /\ gifTags("k1") = {"a", "b"}

\* ------------------------------------------------------------------------
\* GifController.update step by step: the loop that turns tag names into Tags
\* awaits a read, and a creation when the read found nothing, for every name
\* ------------------------------------------------------------------------

\* GifController.update(gif, {tags: tagNames}) is called
BeginUpdate(p, fileUniqueId, tagNames) ==
    /\ task[p].pc = "idle"
    /\ readById(fileUniqueId) # {}
    /\ task' = [task EXCEPT ![p] =
                    [startTask("tags", fileUniqueId, <<>>, {}, FALSE)
                        EXCEPT !.pc = IF tagNames = <<>> THEN "assign" ELSE "readTag"]
                    @@ [names |-> tagNames, answer |-> "pending"]]
    /\ UNCHANGED <<tables, resp, User>>

\* mutant: the name given takes its own place in the list, resolved or not
ReadTagKeepsName(p) ==
    /\ task[p].pc = "readTag"
    /\ LET t == task[p]
           tag == readByTagName(t.names[t.i])
       IN  task' = [task EXCEPT ![p] =
                IF tag = {}
                THEN [t EXCEPT !.pc = "createTag"]
                ELSE [t EXCEPT !.desired = Append(t.desired, t.names[t.i]),
                               !.i = t.i + 1,
                               !.pc = IF t.i = Len(t.names) THEN "assign" ELSE "readTag"]]
    /\ UNCHANGED <<tables, resp, User>>

\* let tag = await Tag.readByTagName(tagName): a found Tag takes the place of
\* the name, otherwise the Tag is to be created
ReadTag(p) ==
    /\ task[p].pc = "readTag"
    /\ LET t == task[p]
           tag == readByTagName(t.names[t.i])
       IN  task' = [task EXCEPT ![p] =
                IF tag = {}
                THEN [t EXCEPT !.pc = "createTag"]
                ELSE [t EXCEPT !.desired = Append(t.desired, Row(tag).tag),
                               !.i = t.i + 1,
                               !.pc = IF t.i = Len(t.names) THEN "assign" ELSE "readTag"]]
    /\ UNCHANGED <<tables, resp, User>>

\* tag = new Tag({tag: tagName}); await tag.create(): the INSERT is refused when
\* a row of that name is there by now, Tag.create throws TagCreateError and so
\* does the update
CreateTag(p) ==
    /\ task[p].pc = "createTag"
    /\ LET t == task[p]
           tagName == t.names[t.i]
       IN  IF \E row \in Tag : row.tag = tagName
           THEN /\ task' = [task EXCEPT ![p] =
                                [t EXCEPT !.pc = "failed", !.answer = "TagCreateError"]]
                /\ UNCHANGED Tag
           ELSE /\ Tag' = Tag \cup {newTag(tagName)}
                /\ task' = [task EXCEPT ![p] =
                                [t EXCEPT !.desired = Append(t.desired, tagName),
                                          !.i = t.i + 1,
                                          !.pc = IF t.i = Len(t.names) THEN "assign"
                                                 ELSE "readTag"]]
    /\ UNCHANGED <<Gif, TagAlias, GifTag, Source, resp, User>>

\* gif.tags = changes.tags; return gif: the setter starts and the update answers
Assign(p) ==
    /\ task[p].pc = "assign"
    /\ LET t == task[p]
       IN  task' = [task EXCEPT ![p] =
                        startTask("tags", t.parent, t.desired, gifTags(t.parent), FALSE)
                            @@ [names |-> t.names, answer |-> "ok"]]
    /\ UNCHANGED <<tables, resp, User>>

\* ------------------------------------------------------------------------
\* Specification: two updates of the tags of one item at the same time
\* ------------------------------------------------------------------------

\* names given as tags: a name stored nowhere and an alias of the stored tag
EnsureNames == {"b", "c"}

NextEnsure ==
    \/ \E p \in Procs : \E tagNames \in SeqsUpTo(EnsureNames, MaxLen) :
            BeginUpdate(p, "k1", tagNames)
    \/ \E p \in Procs : ReadTag(p)
    \/ \E p \in Procs : CreateTag(p)
    \/ \E p \in Procs : Assign(p)
    \/ \E p \in Procs : AddStep(p)
    \/ \E p \in Procs : DbInsert(p)
    \/ \E p \in Procs : AwaitAdd(p)
    \/ \E p \in Procs : RemoveStep(p)
    \/ \E p \in Procs : DbDelete(p)
    \/ \E p \in Procs : AwaitRemove(p)

SpecEnsure == InitUpdate /\ [][NextEnsure]_vars

\* ------------------------------------------------------------------------
\* Properties of tag creation by concurrent updates (checked under SpecEnsure)
\* ------------------------------------------------------------------------

\* C15: when two updates that name the same unknown tag interleave, the name has
\* exactly one Tag row afterwards and both updates complete successfully: no
\* update fails because the other one created the tag first.
C15_ConcurrentCreationTolerated ==
    /\ \A row1, row2 \in Tag : row1.tag = row2.tag => row1 = row2
    /\ \A p \in Procs :
          task[p].pc # "idle" =>
              /\ task[p].answer \in {"pending", "ok"}
              /\ task[p].answer = "ok" =>
                    \A n \in 1..Len(task[p].names) : readByTagName(task[p].names[n]) # {}

\* ------------------------------------------------------------------------
\* Users: UserController.save and the searches of a stored user
\* ------------------------------------------------------------------------

\* a property the caller left out
UNDEFINED == "undefined"

\* Boolean(value) for undefined, null, true and false
Boolean(value) == IF value = "true" THEN "true" ELSE "false"

\* value ?? default: the default only for null and undefined
Coalesce(value, default) == IF value \in {UNDEFINED, NULL} THEN default ELSE value

\* if (value) for undefined, null, true and false
JsTruthy(value) == value = "true"

\* User.readById(id): the rows found
readUserById(id) == {u \in User : u.id = id}

\* new User(properties)
newUser(properties) ==
    [id |-> properties.id,
     role |-> Coalesce(properties.role, "user"),
     disabled |-> Coalesce(Boolean(properties.disabled), "false"),
     sfwMode |-> Coalesce(Boolean(properties.sfwMode), "true")]

\* UserController.save(properties): a stored user takes the properties given
\* and is updated, an unknown one is constructed and inserted
Save(properties) ==
    /\ resp = NoResp
    /\ LET found == readUserById(properties.id)
           user == IF found # {}
                   THEN [id |-> Row(found).id,
                         role |-> Coalesce(properties.role, Row(found).role),
                         disabled |-> Coalesce(properties.disabled, Row(found).disabled),
                         sfwMode |-> Coalesce(properties.sfwMode, Row(found).sfwMode)]
                   ELSE newUser(properties)
       IN  /\ User' = (User \ found) \cup {user}
           /\ resp' = [op |-> "save", properties |-> properties, user |-> user,
                       created |-> (found = {}), status |-> "ok"]
    /\ UNCHANGED <<tables, task>>

\* mutant: the rating of the query is passed on whatever the requester's mode
GifControllerSearchUngated(requester, tags, rating) ==
    /\ resp = NoResp
    /\ \E answer \in SearchAnswers(tags, rating) :
            resp' = answer @@ [requester |-> requester, asked |-> rating]
    /\ UNCHANGED <<tables, task, User>>

\* GifController.search(requester, {tags, rating}): if (requester.sfwMode)
\* rating = "safe"; then Gif.search
GifControllerSearch(requester, tags, rating) ==
    /\ resp = NoResp
    /\ \E answer \in SearchAnswers(tags, IF JsTruthy(requester.sfwMode) THEN "safe" ELSE rating) :
            resp' = answer @@ [requester |-> requester, asked |-> rating]
    /\ UNCHANGED <<tables, task, User>>

\* ------------------------------------------------------------------------
\* Specification: a user contacts the bot, changes settings and searches two
\* items that are created, tagged and rated
\* ------------------------------------------------------------------------

\* what a caller of save passes for sfwMode and for disabled
Settings == {UNDEFINED, "true", "false"}

SaveProperties == [id : {"u1"}, role : {UNDEFINED}, disabled : Settings, sfwMode : Settings]

\* the tag lists of the searches: no token twice
UserTokenLists ==
    {tags \in SeqsUpTo({"a", "-a"}, MaxTokens) : IsDuplicateFree(tags)}

NextUser ==
    \/ \E properties \in SaveProperties : Save(properties)
    \/ \E k \in Keys : Create(Uploader, k)
    \/ \E k \in Keys, rating \in Ratings : SetRating(k, rating)
    \/ \E k \in Keys, tagNames \in SeqsUpTo({"a"}, MaxLen) : ReplaceTags(k, tagNames)
    \/ \E requester \in User, tags \in UserTokenLists, rating \in Ratings \cup {NULL} :
            GifControllerSearch(requester, tags, rating)
    \/ Deliver

SpecUser == Init /\ [][NextUser]_vars

\* ------------------------------------------------------------------------
\* Properties of safe-only mode and of new users (checked under SpecUser)
\* ------------------------------------------------------------------------

\* the last call was a GifController.search
ControllerSearched == resp.op = "search" /\ "requester" \in DOMAIN resp

\* C16: every item GifController.search returns to a requester whose sfwMode is
\* enabled is rated "safe", whatever rating and tags the query has.
C16_SafeOnlyMode ==
    (ControllerSearched /\ JsTruthy(resp.requester.sfwMode)) =>
        \A row \in resp.rows : row \in Gif /\ row.rating = "safe"

\* C16 witness: a requester in safe-only mode asked for "explicit" items with a
\* tag, an item rated "explicit" carries the tag, and a "safe" item was returned.
C16_Witness ==
    /\ ControllerSearched
    /\ JsTruthy(resp.requester.sfwMode)
    /\ resp.asked = "explicit"
    /\ resp.tags = <<"a">>
    /\ resp.rows # {}
    /\ \E g \in Gif : g.rating = "explicit" /\ Carries(g.fileUniqueId, "a")

\* C20: a user that save creates from properties without sfwMode and disabled
\* is stored, and returned, with sfwMode = true and disabled = false.
C20_NewUserDefaults ==
    ( /\ resp.op = "save"
      /\ resp.created
      /\ resp.properties.sfwMode = UNDEFINED
      /\ resp.properties.disabled = UNDEFINED ) =>
        /\ resp.user.sfwMode = "true"
        /\ resp.user.disabled = "false"
        /\ \A u \in readUserById(resp.properties.id) :
                u.sfwMode = "true" /\ u.disabled = "false"

\* ------------------------------------------------------------------------
\* Specification: a setter runs step by step while the item and tags are deleted
\* ------------------------------------------------------------------------

\* Tag.delete(): DELETE FROM Tag, cascading to GifTag and TagAlias
TagDelete(tag) ==
    /\ resp = NoResp
    /\ \E t \in Tag : t.tag = tag
    /\ Tag' = {t \in Tag : t.tag # tag}
    /\ GifTag' = {gt \in GifTag : gt.tag # tag}
    /\ TagAlias' = {al \in TagAlias : al.tag # tag}
    /\ resp' = [op |-> "tagDelete", tag |-> tag, status |-> "ok"]
    /\ UNCHANGED <<Gif, Source, task, User>>

NextCascade ==
    \/ \E kind \in Kinds : \E desired \in SeqsUpTo(MemberNames(kind), MaxLen) :
            Launch("p1", kind, RecParent(kind), desired)
    \/ AddStep("p1")
    \/ DbInsert("p1")
    \/ AwaitAdd("p1")
    \/ RemoveStep("p1")
    \/ DbDelete("p1")
    \/ AwaitRemove("p1")
    \/ Delete(Uploader, "k1")
    \/ \E tag \in MemberNames("tags") : TagDelete(tag)
    \/ Deliver

SpecCascade == InitRec /\ [][NextCascade]_vars

\* C18: every GifTag row references a stored item and a stored tag, every Source
\* row a stored item and every TagAlias row a stored tag, also while an item or
\* a tag is deleted between the insertions of a setter.
C18_ReferentialIntegrity ==
    /\ \A gt \in GifTag :
            /\ readById(gt.fileUniqueId) # {}
            /\ \E t \in Tag : t.tag = gt.tag
    /\ \A s \in Source : readById(s.fileUniqueId) # {}
    /\ \A al \in TagAlias : \E t \in Tag : t.tag = al.tag

\* C18 witness: of two insertions of one run of the tags setter the first was
\* stored, then the item was deleted, and the second was refused; no row of the
\* item is left.
C18_Witness ==
    /\ task["p1"].pc # "idle"
    /\ task["p1"].kind = "tags"
    /\ Len(task["p1"].adds) = 2
    /\ task["p1"].adds[1].st = "ok"
    /\ task["p1"].adds[2].st = "rejected"
    /\ \E t \in Tag : t.tag = task["p1"].adds[2].member
    /\ [fileUniqueId |-> "k1", tag |-> task["p1"].adds[2].member] \notin GifTag
    /\ readById("k1") = {}
    /\ gifTags("k1") = {}

\* ------------------------------------------------------------------------
\* Specification: two runs of the tags setter on the same item, their steps
\* and their writes interleaved in any order
\* ------------------------------------------------------------------------

\* the names the two callers ask for; the item may carry one more
RaceNames == {"a", "b"}

\* one stored item, three stored tags, and any set of them stored for the item
InitRace ==
    /\ Gif = {newGif("k1", "u1")}
    /\ Tag = {newTag(t) : t \in MemberNames("tags")}
    /\ \E C \in SUBSET MemberNames("tags") :
            GifTag = {[fileUniqueId |-> "k1", tag |-> m] : m \in C}
    /\ Source = {}
    /\ TagAlias = {}
    /\ resp = NoResp
    /\ task = [p \in Procs |-> IdleTask]
    /\ User = {}

NextRace ==
    \/ \E p \in Procs, desired \in SeqsUpTo(RaceNames, MaxLen) :
            Launch(p, "tags", "k1", desired)
    \/ \E p \in Procs : AddStep(p)
    \/ \E p \in Procs : DbInsert(p)
    \/ \E p \in Procs : AwaitAdd(p)
    \/ \E p \in Procs : RemoveStep(p)
    \/ \E p \in Procs : DbDelete(p)
    \/ \E p \in Procs : AwaitRemove(p)

SpecRace == InitRace /\ [][NextRace]_vars

\* the run has ended, in success or in an error, and the pool has run every
\* call it issued
Finished(t) == t.pc \in {"done", "addError", "removeError"} /\ Settled(t)

\* both runs were started and have ended
BothFinished == \A p \in Procs : Finished(task[p])

\* the members a run was given
Wanted(p) == Range(task[p].desired)

\* the set stored for the item both runs work on
RaceStored == gifTags("k1")

\* the set stored when the first of the two runs started
RaceInitial == task["p1"].initial \cup task["p2"].initial

\* ------------------------------------------------------------------------
\* Properties of two concurrent runs (checked under SpecRace)
\* ------------------------------------------------------------------------

\* the members of the calls
Members(calls) == {calls[n].member : n \in 1..Len(calls)}

\* C21: each of two concurrent runs decides its insertions and its deletions
\* from the stored set as it reads it at that step: an insertion is issued for
\* a wanted member that is not stored then, the deletions are issued for the
\* members stored then that the run does not want. (The interleaving that
\* ends in neither desired set is C21_Witness.)
C21_EachRunDecidesFromItsOwnRead ==
    [][\A p \in Procs :
          /\ (task[p].pc = "add" /\ Len(task'[p].adds) > Len(task[p].adds)) =>
                task'[p].adds[Len(task'[p].adds)].member \in Wanted(p) \ gifTags("k1")
          /\ (task[p].pc = "remove" /\ task'[p].pc = "awaitRemove") =>
                Members(task'[p].dels) = gifTags("k1") \ Wanted(p)]_vars

\* C21 witness: from an item without tags one run was asked for a and the other
\* for b, both ran to their end without an error, and the item has no tag.
C21_Witness ==
    /\ \A p \in Procs : task[p].pc = "done"
    /\ task["p1"].desired = <<"a">>
    /\ task["p2"].desired = <<"b">>
    /\ RaceInitial = {}
    /\ Len(task["p1"].adds) = 1 /\ Len(task["p1"].dels) = 1
    /\ Len(task["p2"].adds) = 1 /\ Len(task["p2"].dels) = 1
    /\ RaceStored = {}

\* C27: when two runs with the same duplicate-free list have both ended, the
\* stored set is the set of the list.
C27_SameListRaceConverges ==
    ( /\ BothFinished
      /\ task["p1"].desired = task["p2"].desired
      /\ IsDuplicateFree(task["p1"].desired) ) =>
        RaceStored = Wanted("p1")

\* C28: when two concurrent runs have both ended, every member both wanted is
\* stored and nothing is stored that was neither stored at the start nor wanted
\* by one of them.
C28_RaceStaysWithinBounds ==
    BothFinished =>
        /\ (Wanted("p1") \cap Wanted("p2")) \subseteq RaceStored
        /\ RaceStored \subseteq (RaceInitial \cup Wanted("p1") \cup Wanted("p2"))

\* C28 witness: c was stored, one run wanted a and b, the other a; both issued
\* the insertion of a, the first run lost and stopped, the second deleted b
\* and c: a, wanted by both, is stored.
C28_Witness ==
    /\ BothFinished
    /\ task["p1"].desired = <<"a", "b">>
    /\ task["p2"].desired = <<"a">>
    /\ task["p1"].initial = {"c"} /\ task["p2"].initial = {"c"}
    /\ task["p1"].pc = "addError"
    /\ task["p2"].pc = "done"
    /\ Members(task["p2"].dels) = {"b", "c"}
    /\ RaceStored = {"a"}

\* ------------------------------------------------------------------------
\* Specification: names are looked up, and one update of the tags of an item
\* runs step by step, on stores with tags and aliases of every shape
\* ------------------------------------------------------------------------

\* Tag.readByTagName(tagName) called on its own
ReadByTagName(tagName) ==
    /\ resp = NoResp
    /\ resp' = [op |-> "readByTagName", tagName |-> tagName,
                found |-> readByTagName(tagName), status |-> "ok"]
    /\ UNCHANGED <<tables, task, User>>

\* names looked up and given as tags: the two tag names, and a name that can
\* only be an alias or unknown
ResolveNames == TagNames \cup AliasNames

\* one stored item, any of the tags stored, any of them carried by the item,
\* each alias name registered for one of the stored tags or for none
InitResolve ==
    /\ Gif = {newGif("k1", "u1")}
    /\ \E names \in SUBSET TagNames : Tag = {newTag(t) : t \in names}
    /\ \E registered \in SUBSET AliasNames :
         \E of \in [registered -> {t.tag : t \in Tag}] :
            TagAlias = {[tag |-> of[a], alias |-> a] : a \in registered}
    /\ \E carried \in SUBSET {t.tag : t \in Tag} :
            GifTag = {[fileUniqueId |-> "k1", tag |-> m] : m \in carried}
    /\ Source = {}
    /\ resp = NoResp
    /\ task = [p \in Procs |-> IdleTask]
    /\ User = {}

NextResolve ==
    \/ \E tagName \in ResolveNames : ReadByTagName(tagName)
    \/ Deliver
    \/ \E tagNames \in SeqsUpTo(ResolveNames, MaxLen) : BeginUpdate("p1", "k1", tagNames)
    \/ ReadTag("p1")
    \/ CreateTag("p1")
    \/ Assign("p1")
    \/ AddStep("p1")
    \/ DbInsert("p1")
    \/ AwaitAdd("p1")
    \/ RemoveStep("p1")
    \/ DbDelete("p1")
    \/ AwaitRemove("p1")

SpecResolve == InitResolve /\ [][NextResolve]_vars

\* the tags the name is registered for as an alias
AliasTargets(tagName) == {al.tag : al \in {r \in TagAlias : r.alias = tagName}}

\* C23: readByTagName returns the tag a name is an alias of, whether or not a
\* tag of that name is stored and whether or not the name of the tag returned
\* is an alias itself; for a name that is no alias it returns the tag of that
\* name, and nothing when there is none.
C23_OneIndirectionAliasFirst ==
    [][(resp = NoResp /\ resp'.op = "readByTagName") =>
          IF AliasTargets(resp'.tagName) # {}
          THEN /\ Cardinality(resp'.found) = 1
               /\ {t.tag : t \in resp'.found} = AliasTargets(resp'.tagName)
          ELSE resp'.found = {t \in Tag : t.tag = resp'.tagName}]_vars

\* C23 witness: c is an alias of b, b is stored as a tag and is itself an alias
\* of a; looking c up gave b, and looking b up gave a.
C23_Witness ==
    /\ resp.op = "readByTagName"
    /\ AliasTargets("c") = {"b"}
    /\ AliasTargets("b") = {"a"}
    /\ \E t \in Tag : t.tag = "b"
    /\ \/ resp.tagName = "c" /\ resp.found = {newTag("b")}
       \/ resp.tagName = "b" /\ resp.found = {newTag("a")}

\* the name the loop of the update is at
CurrentName(t) == t.names[t.i]

\* the canonical name a stored name stands for: the tag of the alias row, or
\* the name itself
CanonicalOf(tagName) ==
    IF AliasTargets(tagName) # {} THEN CHOOSE c \in AliasTargets(tagName) : TRUE
    ELSE tagName

\* C24: in every step of the loop of GifController.update over the names: a
\* name that resolves to a stored tag creates no Tag row and puts the canonical
\* name of that tag in the list given to the setter; a name that resolves to
\* nothing creates exactly one Tag row, of that name and category "general",
\* before any association is written; Tag changes in no other step.
C24_UpdateResolvesOrCreates ==
    [][LET t == task["p1"]
           after == task'["p1"]
       IN  /\ (t.pc = "readTag" /\ after # t /\ readByTagName(CurrentName(t)) # {}) =>
                /\ Tag' = Tag
                /\ after.desired = Append(t.desired, CanonicalOf(CurrentName(t)))
                /\ \E row \in Tag : row.tag = CanonicalOf(CurrentName(t))
           /\ (t.pc = "readTag" /\ after # t /\ readByTagName(CurrentName(t)) = {}) =>
                /\ Tag' = Tag
                /\ after.pc = "createTag"
           /\ (t.pc = "createTag" /\ after # t) =>
                /\ Tag' = Tag \cup {[tag |-> CurrentName(t), category |-> "general"]}
                /\ Cardinality(Tag') = Cardinality(Tag) + 1
                /\ after.desired = Append(t.desired, CurrentName(t))
                /\ GifTag' = GifTag /\ after.adds = <<>>
           /\ Tag' # Tag => t.pc = "createTag"]_vars

\* C24 witness: the update was given c, an alias of the stored tag a, and the
\* unknown name b: the item carries a and b, b is now a tag of category
\* "general", and c is the name of no tag.
C24_Witness ==
    /\ task["p1"].pc = "done"
    /\ task["p1"].names = <<"c", "b">>
    /\ task["p1"].desired = <<"a", "b">>
    /\ AliasTargets("c") = {"a"}
    /\ AliasTargets("b") = {}
    /\ Tag = {newTag("a"), newTag("b")}
    /\ gifTags("k1") = {"a", "b"}

\* ------------------------------------------------------------------------
\* Specification: one run of a setter, step by step, on a store that may
\* refuse or fail any statement
\* ------------------------------------------------------------------------
NextFail ==
    \/ \E kind \in Kinds : \E desired \in SeqsUpTo(MemberNames(kind), MaxLen) :
            Launch("p1", kind, RecParent(kind), desired)
    \/ AddStep("p1")
    \/ DbInsert("p1")
    \/ DbFail("p1")
    \/ AwaitAdd("p1")
    \/ RemoveStep("p1")
    \/ DbDelete("p1")
    \/ AwaitRemove("p1")

SpecFail == InitRec /\ [][NextFail]_vars

\* an insertion of the run was rejected
AddRejected(t) == \E n \in 1..Len(t.adds) : t.adds[n].st = "rejected"

\* C25: a run of a setter (tags, sources or aliases) issues deletions only
\* when every insertion of its add phase has succeeded; once an insertion is
\* rejected it issues no deletion, and every stored member that is not in the
\* list stays stored.
C25_NoDeletionAfterFailedInsertion ==
    LET t == task["p1"]
    IN  t.pc # "idle" =>
            /\ t.dels # <<>> => \A n \in 1..Len(t.adds) : t.adds[n].st = "ok"
            /\ AddRejected(t) =>
                    /\ t.pc \in {"add", "awaitAdd", "addError"}
                    /\ t.dels = <<>>
                    /\ ToRemove(t.initial, t.desired) \subseteq stored(t.kind, t.parent)

\* C25 witness: tag a had the alias e and was given the aliases d and f, f
\* being an alias of another tag: d was inserted, f was refused, the run
\* stopped in its add phase, and e, which is not in the list, is still stored.
C25_Witness ==
    /\ task["p1"].pc = "addError"
    /\ task["p1"].kind = "aliases"
    /\ task["p1"].initial = {"e"}
    /\ task["p1"].desired = <<"d", "f">>
    /\ task["p1"].adds = <<[member |-> "d", st |-> "ok"], [member |-> "f", st |-> "rejected"]>>
    /\ task["p1"].dels = <<>>
    /\ tagAliases("a") = {"d", "e"}

\* ------------------------------------------------------------------------
\* Specification: GifController.create step by step, two calls at a time
\* ------------------------------------------------------------------------

\* let gif = await Gif.readById(properties.fileUniqueId); if (gif) return gif;
\* otherwise properties.uploadedById = requester.id; gif = new Gif(properties)
CreateBegin(p, requester, fileUniqueId) ==
    /\ task[p].pc = "idle"
    /\ LET gif == readById(fileUniqueId)
           call == [requester |-> requester, key |-> fileUniqueId]
       IN  task' = [task EXCEPT ![p] =
                IF gif # {}
                THEN call @@ [pc |-> "returned", gif |-> Row(gif)]
                ELSE call @@ [pc |-> "insert", gif |-> newGif(fileUniqueId, requester.id)]]
    /\ UNCHANGED <<tables, resp, User>>

\* mutant: the call returns its record whether or not the INSERT was taken
CreateInsertUnchecked(p) ==
    /\ task[p].pc = "insert"
    /\ Gif' = IF readById(task[p].key) = {} THEN Gif \cup {task[p].gif} ELSE Gif
    /\ task' = [task EXCEPT ![p].pc = "returned"]
    /\ UNCHANGED <<Tag, TagAlias, GifTag, Source, resp, User>>

\* await gif.create(); return gif: INSERT INTO Gif is refused when the key is
\* stored by now, and Gif.create throws GifCreateError
CreateInsert(p) ==
    /\ task[p].pc = "insert"
    /\ IF readById(task[p].key) = {}
       THEN /\ Gif' = Gif \cup {task[p].gif}
            /\ task' = [task EXCEPT ![p].pc = "returned"]
       ELSE /\ task' = [task EXCEPT ![p].pc = "GifCreateError"]
            /\ UNCHANGED Gif
    /\ UNCHANGED <<Tag, TagAlias, GifTag, Source, resp, User>>

NextCreate ==
    \/ \E p \in Procs, requester \in Requesters, k \in Keys : CreateBegin(p, requester, k)
    \/ \E p \in Procs : CreateInsert(p)

SpecCreate == Init /\ [][NextCreate]_vars

\* C30: whatever the interleaving of two creates, a key has one row at most;
\* a call that has returned has returned the row stored for its key, uploader
\* included; and when a call has ended, in a return or in an error, its key
\* has its one row.
C30_ConcurrentCreateKeepsOneUploader ==
    /\ \A k \in Keys : Cardinality(readById(k)) <= 1
    /\ \A p \in Procs :
          /\ task[p].pc = "returned" => readById(task[p].key) = {task[p].gif}
          /\ task[p].pc \in {"returned", "GifCreateError"} =>
                Cardinality(readById(task[p].key)) = 1

\* C30 witness: two users called create for the unknown key k1, both found no
\* row, the first call stored and returned its record, the second call's INSERT
\* was refused: the row carries the first caller as uploader.
C30_Witness ==
    /\ task["p1"].pc = "returned"
    /\ task["p2"].pc = "GifCreateError"
    /\ task["p1"].key = "k1" /\ task["p2"].key = "k1"
    /\ task["p1"].requester.id = "u1" /\ task["p2"].requester.id = "u2"
    /\ task["p2"].gif.uploadedById = "u2"
    /\ readById("k1") = {newGif("k1", "u1")}

====
